---- MODULE Spec2Model ----
(***************************************************************************)
(* A model of the option codec, the per-zoom level resolver, the cache-key *)
(* encoder, withTimeout, the fixed-level and isoband contourers and the    *)
(* jittered-grid sampler of maplibre-contour (src/src/utils.ts,            *)
(* src/src/isobands-ms.ts and the isolines part of src/src/types.ts).      *)
(*                                                                         *)
(* JavaScript strings are sequences of one-character strings.  A JS object *)
(* with non-integer keys is the sequence of its <<key, value>> entries in  *)
(* insertion order; an object with integer keys (a zoom -> levels map) is  *)
(* a function on its keys, which JS enumerates in ascending order.         *)
(***************************************************************************)
EXTENDS Integers, Sequences, FiniteSets, TLC

VARIABLES
    \* option codec (encodeOptions / decodeOptions)
    x, encoded, decoded,
    \* level resolver (getOptionsForZoom)
    options, zoom, resolved,
    \* cache key (encodeIndividualOptions)
    optA, optB, keyA, keyB,
    \* withTimeout: the value promise, the abort signal, the timer, the
    \* promises withTimeout creates, the microtask queue, and the order in
    \* which call, settle, abort and expire happened
    hasController, phase, value, signalAborted, listener, timer,
    cancelPromise, finallyPromise, result, microtasks, events,
    \* contouring: the height tile, the requested levels, the tile extent,
    \* what the marching-squares library answers for each pass, and the
    \* mappings generateIsolinesMS and generateIsobands return
    tile, levels, extent, isoLinesLib, isolines, isoBandsLib, isobands,
    \* spot sampling: the state of the generator of the latest call of
    \* generateJitteredGrid, the arguments of the calls made, the points
    \* the latest call returned and those the first call with each
    \* argument tuple returned
    rngState, gridLog, gridPoints, gridFirst,
    \* transfer: the array buffers there are, the tile the source promise
    \* resolves to, the bytes it was cached with, the call made and the
    \* transferrable tile it returned
    heap, cachedTile, cachedBytes, call, prepared

codecVars == <<x, encoded, decoded>>
resolveVars == <<options, zoom, resolved>>
keyVars == <<optA, optB, keyA, keyB>>
timeoutVars ==
    <<hasController, phase, value, signalAborted, listener, timer,
      cancelPromise, finallyPromise, result, microtasks, events>>
isoVars == <<tile, levels, extent, isoLinesLib, isolines, isoBandsLib, isobands>>
gridVars == <<rngState, gridLog, gridPoints, gridFirst>>
transferVars == <<heap, cachedTile, cachedBytes, call, prepared>>
vars == <<codecVars, resolveVars, keyVars, timeoutVars, isoVars, gridVars, transferVars>>

\* The value of a variable that holds nothing yet.
None == [tag |-> "none"]

-----------------------------------------------------------------------------
(* Strings and numbers *)

\* The characters the model uses, in ascending UTF-16 code unit order.
Chars ==
    <<"%", "&", "*", ",", "-", "0", "1", "2", "3", "4", "5", "6", "7", "8",
      "9", ":", "=", "?", "A", "B", "C", "D", "E", "F", "K", "L", "a", "b",
      "c", "d", "e", "f", "g", "h", "i", "l", "m", "n", "o", "p", "r", "s",
      "t", "u", "v", "w", "x", "y", "~">>

CharCode(c) == CHOOSE i \in 1..Len(Chars) : Chars[i] = c

\* a < b for JS strings: lexicographic on code units.
RECURSIVE StrLess(_, _)
StrLess(a, b) ==
    IF b = <<>> THEN FALSE
    ELSE IF a = <<>> THEN TRUE
    ELSE IF Head(a) = Head(b) THEN StrLess(Tail(a), Tail(b))
    ELSE CharCode(Head(a)) < CharCode(Head(b))

DigitChars == <<"0", "1", "2", "3", "4", "5", "6", "7", "8", "9">>

RECURSIVE NatToStr(_)
NatToStr(n) ==
    IF n < 10 THEN <<DigitChars[n + 1]>>
    ELSE NatToStr(n \div 10) \o <<DigitChars[(n % 10) + 1]>>

\* String(n) for an integer n.
NumToStr(n) == IF n < 0 THEN <<"-">> \o NatToStr(0 - n) ELSE NatToStr(n)

IsDigit(c) == \E i \in 1..10 : DigitChars[i] = c

DigitVal(c) == (CHOOSE i \in 1..10 : DigitChars[i] = c) - 1

RECURSIVE DigitsToNat(_, _)
DigitsToNat(s, acc) ==
    IF s = <<>> THEN acc ELSE DigitsToNat(Tail(s), acc * 10 + DigitVal(Head(s)))

\* The number a string that is no numeric literal converts to.
NaN == [nan |-> TRUE]

\* Number(s) for a string: "" is 0, a decimal integer literal is its value,
\* anything else is NaN.
StrToNum(s) ==
    LET AllDigits(t) == t /= <<>> /\ \A i \in 1..Len(t) : IsDigit(t[i])
    IN  IF s = <<>> THEN 0
        ELSE IF AllDigits(s) THEN DigitsToNat(s, 0)
        ELSE IF Head(s) = "-" /\ AllDigits(Tail(s)) THEN 0 - DigitsToNat(Tail(s), 0)
        ELSE NaN

\* Array.prototype.join
RECURSIVE Join(_, _)
Join(parts, sep) ==
    IF parts = <<>> THEN <<>>
    ELSE IF Len(parts) = 1 THEN parts[1]
    ELSE parts[1] \o sep \o Join(Tail(parts), sep)

\* String.prototype.split on a one-character separator.
RECURSIVE SplitAcc(_, _, _)
SplitAcc(s, sep, cur) ==
    IF s = <<>> THEN <<cur>>
    ELSE IF Head(s) = sep THEN <<cur>> \o SplitAcc(Tail(s), sep, <<>>)
    ELSE SplitAcc(Tail(s), sep, Append(cur, Head(s)))

Split(s, sep) == SplitAcc(s, sep, <<>>)

\* The characters encodeURIComponent leaves alone (of those the model uses).
Unreserved(c) == c \notin {"%", "&", ",", ":", "=", "?"}

PercentCode(c) ==
    CASE c = "%" -> <<"%", "2", "5">>
      [] c = "&" -> <<"%", "2", "6">>
      [] c = "," -> <<"%", "2", "C">>
      [] c = ":" -> <<"%", "3", "A">>
      [] c = "=" -> <<"%", "3", "D">>
      [] c = "?" -> <<"%", "3", "F">>

RECURSIVE encodeURIComponent(_)
encodeURIComponent(s) ==
    IF s = <<>> THEN <<>>
    ELSE (IF Unreserved(Head(s)) THEN <<Head(s)>> ELSE PercentCode(Head(s)))
         \o encodeURIComponent(Tail(s))

\* decodeURIComponent: a %XY escape becomes its character.  (A malformed
\* escape throws in JS; encodeURIComponent never produces one.)
RECURSIVE decodeURIComponent(_)
decodeURIComponent(s) ==
    IF s = <<>> THEN <<>>
    ELSE IF Head(s) = "%" /\ Len(s) >= 3
              /\ \E c \in {"%", "&", ",", ":", "=", "?"} : PercentCode(c) = SubSeq(s, 1, 3)
         THEN <<CHOOSE c \in {"%", "&", ",", ":", "=", "?"} : PercentCode(c) = SubSeq(s, 1, 3)>>
              \o decodeURIComponent(SubSeq(s, 4, Len(s)))
         ELSE <<Head(s)>> \o decodeURIComponent(Tail(s))

-----------------------------------------------------------------------------
(* Objects *)

\* Insert an entry into a list of entries sorted by key (a stable insertion).
RECURSIVE InsertEntry(_, _)
InsertEntry(e, sorted) ==
    IF sorted = <<>> THEN <<e>>
    ELSE IF StrLess(e[1], Head(sorted)[1]) THEN <<e>> \o sorted
    ELSE <<Head(sorted)>> \o InsertEntry(e, Tail(sorted))

RECURSIVE SortByKey(_)
SortByKey(entries) ==
    IF entries = <<>> THEN <<>>
    ELSE InsertEntry(entries[Len(entries)], SortByKey(SubSeq(entries, 1, Len(entries) - 1)))

\* Object.entries without the sort: the entries in insertion order.
unsortedEntries(entries) == entries

\* sortedEntries(object): Object.entries, then sort on the key strings.
sortedEntries(entries) == SortByKey(entries)

\* Object.entries of an integer-keyed object: the keys as strings, in
\* ascending numeric order.
RECURSIVE IntEntries(_)
IntEntries(map) ==
    IF DOMAIN map = {} THEN <<>>
    ELSE LET k == CHOOSE k \in DOMAIN map : \A j \in DOMAIN map : k <= j
         IN  <<<<NumToStr(k), map[k]>>>> \o IntEntries([j \in DOMAIN map \ {k} |-> map[j]])

\* Object.fromEntries for entries with numeric keys: a later entry with
\* the same key replaces an earlier one.
FromIntEntries(entries) ==
    [k \in {entries[i][1] : i \in 1..Len(entries)} |->
        LET last == CHOOSE i \in 1..Len(entries) :
                        /\ entries[i][1] = k
                        /\ \A j \in (i + 1)..Len(entries) : entries[j][1] /= k
        IN  entries[last][2]]

\* The keys of an object given by its entries.
Keys(obj) == {obj[i][1] : i \in 1..Len(obj)}

HasKey(obj, k) == \E i \in 1..Len(obj) : obj[i][1] = k

\* obj[k]: the value of the last entry with key k.
Get(obj, k) ==
    LET last == CHOOSE i \in 1..Len(obj) :
                    obj[i][1] = k /\ \A j \in (i + 1)..Len(obj) : obj[j][1] /= k
    IN  obj[last][2]

\* The object without some keys (rest destructuring keeps the order).
RECURSIVE Omit(_, _)
Omit(obj, ks) ==
    IF obj = <<>> THEN <<>>
    ELSE IF Head(obj)[1] \in ks THEN Omit(Tail(obj), ks)
    ELSE <<Head(obj)>> \o Omit(Tail(obj), ks)

\* Object.fromEntries for string keys: a repeated key keeps its first
\* position and takes its last value.
RECURSIVE FromEntries(_)
FromEntries(entries) ==
    IF entries = <<>> THEN <<>>
    ELSE LET init == FromEntries(SubSeq(entries, 1, Len(entries) - 1))
             e == entries[Len(entries)]
         IN  IF HasKey(init, e[1])
             THEN [i \in 1..Len(init) |-> IF init[i][1] = e[1] THEN e ELSE init[i]]
             ELSE Append(init, e)

\* Deep equality of two objects: the same keys with the same values,
\* whatever the insertion order.
ObjEq(a, b) == {a[i] : i \in 1..Len(a)} = {b[i] : i \in 1..Len(b)}

\* Values.  A level list is a sequence of integers; a thresholds value is
\* a level list or a bare number.
NumV(n) == [tag |-> "num", num |-> n, str |-> <<>>, list |-> <<>>, map |-> <<>>]
StrV(s) == [tag |-> "str", num |-> 0, str |-> s, list |-> <<>>, map |-> <<>>]
ListV(l) == [tag |-> "list", num |-> 0, str |-> <<>>, list |-> l, map |-> <<>>]
MapV(m) == [tag |-> "map", num |-> 0, str |-> <<>>, list |-> <<>>, map |-> m]
Undefined == [tag |-> "undefined", num |-> 0, str |-> <<>>, list |-> <<>>, map |-> <<>>]

\* String(v), as a template literal and encodeURIComponent apply it.
ToStr(v) ==
    CASE v.tag = "num" -> NumToStr(v.num)
      [] v.tag = "str" -> v.str
      [] v.tag = "list" -> Join([i \in 1..Len(v.list) |-> NumToStr(v.list[i])], <<",">>)
      [] v.tag = "undefined" -> <<"u", "n", "d", "e", "f", "i", "n", "e", "d">>

\* The option names.
K_thresholds == <<"t", "h", "r", "e", "s", "h", "o", "l", "d", "s">>
K_lineLevels == <<"l", "i", "n", "e", "L", "e", "v", "e", "l", "s">>
K_polygonLevels == <<"p", "o", "l", "y", "g", "o", "n", "L", "e", "v", "e", "l", "s">>
K_extent == <<"e", "x", "t", "e", "n", "t">>
K_multiplier == <<"m", "u", "l", "t", "i", "p", "l", "i", "e", "r">>
K_overzoom == <<"o", "v", "e", "r", "z", "o", "o", "m">>
K_buffer == <<"b", "u", "f", "f", "e", "r">>
K_subsampleBelow == <<"s", "u", "b", "s", "a", "m", "p", "l", "e", "B", "e", "l", "o", "w">>
K_elevationKey == <<"e", "l", "e", "v", "a", "t", "i", "o", "n", "K", "e", "y">>

-----------------------------------------------------------------------------
(* Option codec: encodeOptions and decodeOptions *)

\* [key, ...(typeof value === "number" ? [value] : value)].join("*")
EncodeEntry(key, v) ==
    LET vals == IF v.tag = "num" THEN <<v.num>> ELSE v.list
    IN  Join(<<key>> \o [i \in 1..Len(vals) |-> NumToStr(vals[i])], <<"*">>)

encodeThresholds(thresholds) ==
    LET es == sortedEntries(IntEntries(thresholds))
    IN  Join([i \in 1..Len(es) |-> EncodeEntry(es[i][1], es[i][2])], <<"~">>)

\* part.split("*").map(Number), then [key, values]
DecodeEntry(part) ==
    LET nums == [i \in 1..Len(Split(part, "*")) |-> StrToNum(Split(part, "*")[i])]
    IN  <<Head(nums), ListV(Tail(nums))>>

decodeThresholds(thresholds) ==
    LET parts == Split(thresholds, "~")
    IN  FromIntEntries([i \in 1..Len(parts) |-> DecodeEntry(parts[i])])

encodeLevels(lvls) ==
    LET es == sortedEntries(IntEntries(lvls))
    IN  Join([i \in 1..Len(es) |-> EncodeEntry(es[i][1], es[i][2])], <<"~">>)

decodeLevels(lvls) ==
    LET parts == Split(lvls, "~")
    IN  FromIntEntries([i \in 1..Len(parts) |-> DecodeEntry(parts[i])])

LevelKeys == {K_thresholds, K_lineLevels, K_polygonLevels}

\* `${encodeURIComponent(key)}=${encodeURIComponent(value)}`
EncodePair(e) == encodeURIComponent(e[1]) \o <<"=">> \o encodeURIComponent(ToStr(e[2]))

encodeOptions(opts) ==
    LET rest == Omit(opts, LevelKeys)
        e1 == IF HasKey(opts, K_thresholds)
              THEN Append(rest, <<K_thresholds, StrV(encodeThresholds(Get(opts, K_thresholds).map))>>)
              ELSE rest
        e2 == IF HasKey(opts, K_lineLevels)
              THEN Append(e1, <<K_lineLevels, StrV(encodeLevels(Get(opts, K_lineLevels).map))>>)
              ELSE e1
        e3 == IF HasKey(opts, K_polygonLevels)
              THEN Append(e2, <<K_polygonLevels, StrV(encodeLevels(Get(opts, K_polygonLevels).map))>>)
              ELSE e2
        es == sortedEntries(e3)
    IN  Join([i \in 1..Len(es) |-> EncodePair(es[i])], <<"&">>)

\* options.replace(/^.*\?/, ""): drop everything up to the last "?".
RECURSIVE StripQuery(_)
StripQuery(s) ==
    IF \E i \in 1..Len(s) : s[i] = "?"
    THEN StripQuery(SubSeq(s, (CHOOSE i \in 1..Len(s) : s[i] = "?") + 1, Len(s)))
    ELSE s

\* The switch of decodeOptions on the key.  v is a string, or undefined
\* when the part holds no "=".
DecodeValue(k, v) ==
    IF v.tag /= "str" THEN v
    ELSE IF k = K_thresholds THEN MapV(decodeThresholds(v.str))
    ELSE IF k \in {K_lineLevels, K_polygonLevels} THEN MapV(decodeLevels(v.str))
    ELSE IF k \in {K_extent, K_multiplier, K_overzoom, K_buffer} THEN NumV(StrToNum(v.str))
    ELSE v

DecodePart(part) ==
    LET raw == Split(part, "=")
        parts == [i \in 1..Len(raw) |-> decodeURIComponent(raw[i])]
        k == parts[1]
        v == IF Len(parts) >= 2 THEN StrV(parts[2]) ELSE Undefined
    IN  <<k, DecodeValue(k, v)>>

decodeOptions(str) ==
    LET parts == Split(StripQuery(str), "&")
    IN  FromEntries([i \in 1..Len(parts) |-> DecodePart(parts[i])])

\* The level configurations the codec is run on.
CodecZooms == {8, 10}
SpacingValues == {NumV(50), ListV(<<50>>), ListV(<<50, 100>>)}
LevelValues == {ListV(<<>>), ListV(<<50>>), ListV(<<-100, 0>>)}
PolygonValues == {ListV(<<-100, -75>>), ListV(<<5, 10, 20>>)}

\* The zoom -> value maps with keys among zooms (the empty map included).
MapsOver(zooms, values) == UNION {[s -> values] : s \in SUBSET zooms}

\* The maps with at least one zoom.
LevelMaps(zooms, values) == MapsOver(zooms, values) \ {<<>>}

\* An optional entry: absent, or the key with one of the values.
Optional(k, values) == {<<>>} \cup {<<<<k, v>>>> : v \in values}

CodecInputs ==
    {ev \o sb \o po \o th \o ex \o li :
        th \in Optional(K_thresholds, {MapV(m) : m \in MapsOver(CodecZooms, SpacingValues)}),
        li \in Optional(K_lineLevels, {MapV(m) : m \in MapsOver(CodecZooms, LevelValues)}),
        po \in Optional(K_polygonLevels, {MapV(m) : m \in MapsOver(CodecZooms, PolygonValues)}),
        ex \in Optional(K_extent, {NumV(4096)}),
        sb \in Optional(K_subsampleBelow, {NumV(100)}),
        ev \in Optional(K_elevationKey, {StrV(<<"e", "=", "&">>)})}



EncodeOptions ==
    /\ encoded = None
    /\ encoded' = StrV(encodeOptions(x))
    /\ UNCHANGED <<x, decoded, resolveVars, keyVars, timeoutVars, isoVars, gridVars, transferVars>>

DecodeOptions ==
    /\ encoded /= None
    /\ decoded = None
    /\ decoded' = [tag |-> "object", obj |-> decodeOptions(encoded.str)]
    /\ UNCHANGED <<x, encoded, resolveVars, keyVars, timeoutVars, isoVars, gridVars, transferVars>>

-----------------------------------------------------------------------------
(* Level resolver: getOptionsForZoom *)

\* One forEach over Object.entries(levels): acc holds maxLessThanOrEqualTo
\* (has = FALSE while it is -Infinity) and the value picked so far.
RECURSIVE ScanZooms(_, _, _)
ScanZooms(entries, z0, acc) ==
    IF entries = <<>> THEN acc
    ELSE LET z == StrToNum(Head(entries)[1])
             v == Head(entries)[2]
         IN  IF z <= z0 /\ (~acc.has \/ z > acc.max)
             THEN ScanZooms(Tail(entries), z0, [has |-> TRUE, max |-> z, picked |-> v])
             ELSE ScanZooms(Tail(entries), z0, acc)

\* typeof value === "number" ? [value] : value
AsList(v) == IF v.tag = "num" THEN ListV(<<v.num>>) ELSE v

getOptionsForZoom(opts, z0) ==
    LET rest == Omit(opts, LevelKeys)
        start(v) == [has |-> FALSE, max |-> 0, picked |-> v]
        l0 == ListV(<<>>)
        l1 == IF HasKey(opts, K_thresholds)
              THEN AsList(ScanZooms(IntEntries(Get(opts, K_thresholds).map), z0, start(l0)).picked)
              ELSE l0
        l2 == IF HasKey(opts, K_lineLevels)
              THEN ScanZooms(IntEntries(Get(opts, K_lineLevels).map), z0, start(l1)).picked
              ELSE l1
        p0 == Undefined
        p1 == IF HasKey(opts, K_polygonLevels)
              THEN ScanZooms(IntEntries(Get(opts, K_polygonLevels).map), z0, start(p0)).picked
              ELSE p0
    IN  [tag |-> "object", obj |-> <<<<K_lineLevels, l2>>, <<K_polygonLevels, p1>>>> \o rest]

\* The configurations and zooms the resolver is run on.
ResolveZooms == {8, 11}
RequestZooms == {5, 8, 9, 11, 12}

ResolveInputs ==
    {th \o po \o ex \o li :
        th \in Optional(K_thresholds, {MapV(m) : m \in LevelMaps(ResolveZooms, SpacingValues)}),
        li \in Optional(K_lineLevels, {MapV(m) : m \in LevelMaps(ResolveZooms, LevelValues)}),
        po \in Optional(K_polygonLevels, {MapV(m) : m \in LevelMaps(ResolveZooms, PolygonValues)}),
        ex \in Optional(K_extent, {NumV(4096)})}



GetOptionsForZoom ==
    /\ resolved = None
    /\ resolved' = getOptionsForZoom(options, zoom)
    /\ UNCHANGED <<options, zoom, codecVars, keyVars, timeoutVars, isoVars, gridVars, transferVars>>

\* A new request: another zoom for the same configuration.
NextRequest ==
    /\ resolved /= None
    /\ \E z \in RequestZooms : zoom' = z
    /\ resolved' = None
    /\ UNCHANGED <<options, codecVars, keyVars, timeoutVars, isoVars, gridVars, transferVars>>

-----------------------------------------------------------------------------
(* Cache key: encodeIndividualOptions *)

encodeIndividualOptions(opts) ==
    LET es == sortedEntries(opts)
    IN  Join([i \in 1..Len(es) |-> EncodePair(es[i])], <<",">>)

\* Every order of the entries of a set.
RECURSIVE Orders(_)
Orders(S) ==
    IF S = {} THEN {<<>>}
    ELSE UNION {{<<e>> \o o : o \in Orders(S \ {e})} : e \in S}

\* The resolved per-zoom option objects the key encoder is run on: every
\* non-empty choice of keys, every value of each, every insertion order.
KeyValues ==
    [k \in {K_lineLevels, K_polygonLevels, K_elevationKey} |->
        IF k = K_lineLevels THEN {ListV(<<>>), ListV(<<1, 2>>), ListV(<<12>>)}
        ELSE IF k = K_polygonLevels THEN {Undefined, ListV(<<1, 2>>)}
        ELSE {StrV(<<"e">>), StrV(<<"1", ",", "2">>)}]

KeyObjects ==
    UNION {UNION {Orders({<<k, f[k]>> : k \in ks}) :
                    f \in {g \in [ks -> UNION {KeyValues[k] : k \in ks}] :
                              \A k \in ks : g[k] \in KeyValues[k]}} :
           ks \in SUBSET (DOMAIN KeyValues) \ {{}}}



EncodeA ==
    /\ keyA = None
    /\ keyA' = StrV(encodeIndividualOptions(optA))
    /\ UNCHANGED <<optA, optB, keyB, codecVars, resolveVars, timeoutVars, isoVars, gridVars, transferVars>>

EncodeB ==
    /\ keyB = None
    /\ keyB' = StrV(encodeIndividualOptions(optB))
    /\ UNCHANGED <<optA, optB, keyA, codecVars, resolveVars, timeoutVars, isoVars, gridVars, transferVars>>

-----------------------------------------------------------------------------
(* withTimeout *)

\* reject(new Error(reason)) on cancelPromise: the first call settles it
\* and queues the reaction Promise.race registered on it; a later call
\* does nothing.
Reject(reason, cp, queue) ==
    IF cp = "pending"
    THEN [cancelPromise |-> reason, microtasks |-> Append(queue, "C")]
    ELSE [cancelPromise |-> cp, microtasks |-> queue]

\* clearTimeout(timeout)
ClearTimeout(t) == IF t = "armed" THEN "cleared" ELSE t

\* The listener withTimeout hands to onAbort:
\* reject(new Error("aborted")); clearTimeout(timeout).
AbortListener(cp, queue, t) ==
    [cancelPromise |-> Reject("aborted", cp, queue).cancelPromise,
     microtasks |-> Reject("aborted", cp, queue).microtasks,
     timer |-> ClearTimeout(t)]

\* onAbort that adds no listener.
onAbortDropped(controller) == FALSE

\* onAbort(abortController, action): the listener is added when there is a
\* controller.  (addEventListener on a signal that is already aborted adds
\* a listener that never runs.)
onAbort(controller) == controller

\* The timer callback with its two statements swapped: abort() first, so
\* that the abort listener rejects before the timeout does.
TimerCallbackAbortFirst(cp, queue, aborted, controller, lst) ==
    LET fires == controller /\ ~aborted /\ lst
        l == AbortListener(cp, queue, "fired")
        r == IF fires THEN Reject("timed out", l.cancelPromise, l.microtasks)
             ELSE Reject("timed out", cp, queue)
    IN  [cancelPromise |-> r.cancelPromise,
         microtasks |-> r.microtasks,
         signalAborted |-> aborted \/ controller]

\* The timer callback: reject(new Error("timed out")), then
\* abortController?.abort(), which runs the abort listener when the signal
\* was not aborted yet.
TimerCallback(cp, queue, aborted, controller, lst) ==
    LET r == Reject("timed out", cp, queue)
        fires == controller /\ ~aborted /\ lst
        l == AbortListener(r.cancelPromise, r.microtasks, "fired")
    IN  [cancelPromise |-> IF fires THEN l.cancelPromise ELSE r.cancelPromise,
         microtasks |-> IF fires THEN l.microtasks ELSE r.microtasks,
         signalAborted |-> aborted \/ controller]

\* The body of withTimeout, which runs to its return without a break:
\* setTimeout, onAbort, new Promise, value.finally (whose reaction is
\* queued at once when value is settled already), Promise.race.
WithTimeout ==
    /\ phase = "before"
    /\ phase' = "called"
    /\ timer' = "armed"
    /\ listener' = onAbort(hasController)
    /\ cancelPromise' = "pending"
    /\ microtasks' = IF value /= "pending" THEN Append(microtasks, "F1") ELSE microtasks
    /\ events' = Append(events, "call")
    /\ UNCHANGED <<hasController, value, signalAborted, finallyPromise, result>>
    /\ UNCHANGED <<codecVars, resolveVars, keyVars, isoVars, gridVars, transferVars>>

\* The value promise fulfils or rejects (the work withTimeout guards).
ValueSettles ==
    /\ value = "pending"
    /\ \E outcome \in {"fulfilled", "rejected"} : value' = outcome
    /\ microtasks' = IF phase = "called" THEN Append(microtasks, "F1") ELSE microtasks
    /\ events' = Append(events, "settle")
    /\ UNCHANGED <<hasController, phase, signalAborted, listener, timer,
                   cancelPromise, finallyPromise, result>>
    /\ UNCHANGED <<codecVars, resolveVars, keyVars, isoVars, gridVars, transferVars>>

\* Somebody calls abortController.abort(): the signal's listeners run
\* within the call.  Any code may call it, also between two microtasks.
Abort ==
    /\ hasController
    /\ ~signalAborted
    /\ signalAborted' = TRUE
    /\ LET l == AbortListener(cancelPromise, microtasks, timer)
       IN  IF listener
           THEN /\ cancelPromise' = l.cancelPromise
                /\ microtasks' = l.microtasks
                /\ timer' = l.timer
           ELSE UNCHANGED <<cancelPromise, microtasks, timer>>
    /\ events' = Append(events, "abort")
    /\ UNCHANGED <<hasController, phase, value, listener, finallyPromise, result>>
    /\ UNCHANGED <<codecVars, resolveVars, keyVars, isoVars, gridVars, transferVars>>

\* The timer fires: a task, so it runs when no microtask is left.
TimerExpires ==
    /\ timer = "armed"
    /\ microtasks = <<>>
    /\ timer' = "fired"
    /\ LET t == TimerCallback(cancelPromise, microtasks, signalAborted, hasController, listener)
       IN  /\ cancelPromise' = t.cancelPromise
           /\ microtasks' = t.microtasks
           /\ signalAborted' = t.signalAborted
    /\ events' = Append(events, "expire")
    /\ UNCHANGED <<hasController, phase, value, listener, finallyPromise, result>>
    /\ UNCHANGED <<codecVars, resolveVars, keyVars, isoVars, gridVars, transferVars>>

\* What the race promise becomes when a reaction settles it: the first
\* settlement stays.
Settle(res, outcome) == IF res = "pending" THEN outcome ELSE res

\* The job at the head of the microtask queue runs.
\*   F1  the reaction of value.finally: clearTimeout(timeout), then
\*       Promise.resolve(undefined).then(() => value) (queues F2) is
\*       returned, a thenable (queues F3)
\*   F2  the thunk hands value's outcome on
\*   F3  the thenable job: then() on the settled promise queues F4
\*   F4  the promise value.finally returned settles; the reaction
\*       Promise.race registered on it is queued (F5)
\*   F5  the race promise settles as value did, unless settled already
\*   C   the reaction of cancelPromise: the race promise rejects with the
\*       reason, unless settled already
RunMicrotask ==
    /\ microtasks /= <<>>
    /\ LET job == Head(microtasks)
           rest == Tail(microtasks)
       IN  /\ timer' = IF job = "F1" THEN ClearTimeout(timer) ELSE timer
           /\ microtasks' =
                CASE job = "F1" -> rest \o <<"F2", "F3">>
                  [] job = "F3" -> Append(rest, "F4")
                  [] job = "F4" -> Append(rest, "F5")
                  [] OTHER -> rest
           /\ finallyPromise' = IF job = "F4" THEN value ELSE finallyPromise
           /\ result' =
                CASE job = "F5" -> Settle(result, finallyPromise)
                  [] job = "C" -> Settle(result, cancelPromise)
                  [] OTHER -> result
    /\ UNCHANGED <<hasController, phase, value, signalAborted, listener,
                   cancelPromise, events>>
    /\ UNCHANGED <<codecVars, resolveVars, keyVars, isoVars, gridVars, transferVars>>


-----------------------------------------------------------------------------
(* Contouring: generateIsolinesMS and generateIsobands *)

\* [...levelArray].sort((a, b) => a - b)
RECURSIVE InsertNum(_, _)
InsertNum(n, sorted) ==
    IF sorted = <<>> THEN <<n>>
    ELSE IF n < Head(sorted) THEN <<n>> \o sorted
    ELSE <<Head(sorted)>> \o InsertNum(n, Tail(sorted))

RECURSIVE SortNum(_)
SortNum(l) ==
    IF l = <<>> THEN <<>>
    ELSE InsertNum(l[Len(l)], SortNum(SubSeq(l, 1, Len(l) - 1)))

\* The height tile is its rows of elevations: tile.get(x, y) is
\* tile[y + 1][x + 1], tile.width the length of a row.
Width(t) == Len(t[1])

Elevations(t) == {t[r][c] : r \in 1..Len(t), c \in 1..Width(t)}

\* Math.round(x * scale) with scale = extent / (width - 1), for a
\* coordinate x = n / 2 the library returns (n counts half pixels).
\* Math.round rounds a half up.
RoundScaled(n, ext, width) == (n * ext + (width - 1)) \div (2 * (width - 1))

\* The flat array of rounded, scaled coordinates of one path.
RECURSIVE Flatten(_, _, _)
Flatten(path, ext, width) ==
    IF path = <<>> THEN <<>>
    ELSE <<RoundScaled(Head(path)[1], ext, width), RoundScaled(Head(path)[2], ext, width)>>
         \o Flatten(Tail(path), ext, width)

\* The geometries of all the paths, without the filter on their length.
RECURSIVE GeometriesUnfiltered(_, _, _, _)
GeometriesUnfiltered(paths, ext, width, min) ==
    IF paths = <<>> THEN <<>>
    ELSE <<Flatten(Head(paths), ext, width)>> \o GeometriesUnfiltered(Tail(paths), ext, width, min)

\* The geometries of the paths whose flat array has at least min numbers.
RECURSIVE Geometries(_, _, _, _)
Geometries(paths, ext, width, min) ==
    IF paths = <<>> THEN <<>>
    ELSE LET g == Flatten(Head(paths), ext, width)
         IN  (IF Len(g) >= min THEN <<g>> ELSE <<>>)
             \o Geometries(Tail(paths), ext, width, min)

\* Lines with at least 2 points (4 coordinates) are kept.
MinLineCoords == 4

\* Rings with at least 3 points (6 coordinates) are kept.
MinRingCoords == 6

\* result[key] = value on a mapping.
Put(map, k, v) == [j \in DOMAIN map \cup {k} |-> IF j = k THEN v ELSE map[j]]

\* What the library may answer for one pass: it throws, it returns an
\* empty array, or it returns the paths of the one threshold.
Threw == [kind |-> "threw", paths |-> <<>>]
NoResult == [kind |-> "empty", paths |-> <<>>]
Paths(ps) == [kind |-> "paths", paths |-> ps]

\* Paths in half pixels: one point, two points, three points, a closed
\* ring of four.
OnePoint == <<<<1, 0>>>>
TwoPoints == <<<<1, 0>>, <<1, 2>>>>
ThreePoints == <<<<1, 0>>, <<2, 1>>, <<3, 2>>>>
Ring == <<<<1, 0>>, <<3, 2>>, <<1, 2>>, <<1, 0>>>>

PathLists ==
    {<<>>, <<OnePoint>>, <<TwoPoints>>, <<Ring>>, <<OnePoint, ThreePoints>>, <<TwoPoints, Ring>>}

\* isoLines(data, [level], ...): the library is not part of this code, so
\* its answer is any of the above; all that is used of marching squares
\* is that a level no cell straddles (above every elevation, or at or
\* below every one) has no line.
IsoLinesAnswers(t, level) ==
    IF (\A e \in Elevations(t) : e < level) \/ (\A h \in Elevations(t) : h >= level)
    THEN {Threw, NoResult, Paths(<<>>)}
    ELSE {Threw, NoResult} \cup {Paths(ps) : ps \in PathLists}

\* isoBands(data, [lower], [bandwidth], ...): likewise; a band that holds
\* no elevation and lies above or below all of them has no polygon.
IsoBandsAnswers(t, lower, bandwidth) ==
    IF (\A e \in Elevations(t) : e < lower) \/ (\A h \in Elevations(t) : h > lower + bandwidth)
    THEN {Threw, NoResult, Paths(<<>>)}
    ELSE {Threw, NoResult} \cup {Paths(ps) : ps \in PathLists}

\* No catch: the error of the pass leaves generateIsolinesMS.
OnLevelErrorRethrow(acc) == [acc EXCEPT !.tag = "threw"]

\* The catch of generateIsolinesMS: console.error, and the loop goes on.
OnLevelError(acc) == acc

\* The for loop of generateIsolinesMS over the sorted levels.
RECURSIVE IsolinesLoop(_, _, _, _, _)
IsolinesLoop(sorted, lib, ext, width, acc) ==
    IF sorted = <<>> \/ acc.tag = "threw" THEN acc
    ELSE LET level == Head(sorted)
             answer == lib[level]
             geometries == Geometries(answer.paths, ext, width, MinLineCoords)
             next == IF answer.kind = "threw" THEN OnLevelError(acc)
                     ELSE IF geometries /= <<>>
                     THEN [acc EXCEPT !.map = Put(acc.map, NumToStr(level), geometries)]
                     ELSE acc
         IN  IsolinesLoop(Tail(sorted), lib, ext, width, next)

generateIsolinesMS(lvls, t, ext, lib) ==
    IF lvls = <<>> THEN [tag |-> "returned", map |-> <<>>]
    ELSE IsolinesLoop(SortNum(lvls), lib, ext, Width(t), [tag |-> "returned", map |-> <<>>])

\* The range key joined with a hyphen.
RangeKeyHyphen(lower, upper) == NumToStr(lower) \o <<"-">> \o NumToStr(upper)

\* `${lowerLevel}:${upperLevel}`
RangeKey(lower, upper) == NumToStr(lower) \o <<":">> \o NumToStr(upper)

\* The catch of generateIsobands: console.error, and the loop goes on.
OnRangeError(acc) == acc

\* The for loop of generateIsobands over the pairs of adjacent levels.
RECURSIVE IsobandsLoop(_, _, _, _, _, _)
IsobandsLoop(sorted, i, lib, ext, width, acc) ==
    IF ~(i < Len(sorted)) \/ acc.tag = "threw" THEN acc
    ELSE LET lowerLevel == sorted[i]
             upperLevel == sorted[i + 1]
             answer == lib[<<lowerLevel, upperLevel - lowerLevel>>]
             polygons == Geometries(answer.paths, ext, width, MinRingCoords)
             next == IF answer.kind = "threw" THEN OnRangeError(acc)
                     ELSE IF polygons /= <<>>
                     THEN [acc EXCEPT !.map = Put(acc.map, RangeKey(lowerLevel, upperLevel), polygons)]
                     ELSE acc
         IN  IsobandsLoop(sorted, i + 1, lib, ext, width, next)

generateIsobands(lvls, t, ext, lib) ==
    IF lvls = <<>> THEN [tag |-> "returned", map |-> <<>>]
    ELSE IsobandsLoop(SortNum(lvls), 1, lib, ext, Width(t), [tag |-> "returned", map |-> <<>>])

\* The passes a call makes: the levels, and the <<threshold, bandwidth>>
\* pairs of adjacent sorted levels.
LinePasses(lvls) == {lvls[i] : i \in 1..Len(lvls)}

BandPasses(lvls) ==
    {<<SortNum(lvls)[i], SortNum(lvls)[i + 1] - SortNum(lvls)[i]>> : i \in 1..(Len(lvls) - 1)}

\* The inputs of the contourers.
MaxLevels == 3
LevelUniverse == {-8, -5, 5, 20}
Tiles == {<<<<-6, 0, 10>>, <<-6, 2, 10>>>>, <<<<3, 3, 3>>, <<3, 3, 3>>>>}
Extents == {4096, 5}

LevelLists == UNION {[1..n -> LevelUniverse] : n \in 0..MaxLevels}

\* generateIsolinesMS(levels, tile, extent): the library's answers are
\* those of one deterministic library, the same for a repeated level.
\* (A run makes one call: the two functions share no state.)
GenerateIsolinesMS ==
    /\ isolines = None /\ isobands = None
    /\ \E lib \in [LinePasses(levels) -> {Threw, NoResult} \cup {Paths(ps) : ps \in PathLists}] :
          /\ \A l \in DOMAIN lib : lib[l] \in IsoLinesAnswers(tile, l)
          /\ isoLinesLib' = lib
          /\ isolines' = generateIsolinesMS(levels, tile, extent, lib)
    /\ UNCHANGED <<tile, levels, extent, isoBandsLib, isobands>>
    /\ UNCHANGED <<codecVars, resolveVars, keyVars, timeoutVars, gridVars, transferVars>>

\* generateIsobands(levels, tile, extent)
GenerateIsobands ==
    /\ isolines = None /\ isobands = None
    /\ \E lib \in [BandPasses(levels) -> {Threw, NoResult} \cup {Paths(ps) : ps \in PathLists}] :
          /\ \A b \in DOMAIN lib : lib[b] \in IsoBandsAnswers(tile, b[1], b[2])
          /\ isoBandsLib' = lib
          /\ isobands' = generateIsobands(levels, tile, extent, lib)
    /\ UNCHANGED <<tile, levels, extent, isoLinesLib, isolines>>
    /\ UNCHANGED <<codecVars, resolveVars, keyVars, timeoutVars, gridVars, transferVars>>


-----------------------------------------------------------------------------
(* Spot sampling: seededRandom and generateJitteredGrid *)

\* The generator state is a number below 4294967296 = Limb * Limb, held
\* as <<high, low>> with state = high * Limb + low, so that no product
\* leaves the 32-bit integers.  (In JS state * 1664525 + 1013904223 stays
\* below 2^53 and is exact.)
Limb == 65536

ToLimbs(n) == <<n \div Limb, n % Limb>>

\* 1664525 = 25 * Limb + 26125
MultiplierHigh == 25
MultiplierLow == 26125

\* 1013904223 = 15470 * Limb + 62303
IncrementHigh == 15470
IncrementLow == 62303

\* state = (state * 1664525 + 1013904223) % 4294967296
NextState(st) ==
    LET low == MultiplierLow * st[2] + IncrementLow
        high == MultiplierLow * st[1] + MultiplierHigh * st[2] + IncrementHigh + (low \div Limb)
    IN  <<high % Limb, low % Limb>>

\* A generator whose state is shared by all calls and never reseeded.
seededRandomShared(seed, previous) == previous

\* seededRandom(seed): let state = seed, a variable of its own for each
\* generator; previous is the state the generator before it was left in.
seededRandom(seed, previous) == ToLimbs(seed)

\* const seed = tileZ * 1000000 + tileX * 1000 + tileY
Seed(a) == a.tileZ * 1000000 + a.tileX * 1000 + a.tileY

\* A coordinate cell + spacing / 4 + (state / 4294967296) * spacing / 2,
\* kept exactly as the cell origin and the state drawn for it.
Coord(cell, st) == [cell |-> cell, state |-> st]

\* coordinate < max, that is
\*   spacing * (2^31 + state) < (max - cell) * 2^33
\* compared in units of Limb.
Below(c, spacing, max) ==
    spacing * (c.state[1] + (Limb \div 2)) + ((spacing * c.state[2]) \div Limb)
        < (max - c.cell) * 2 * Limb

\* The two nested loops with a point kept when either coordinate is
\* below its maximum.
RECURSIVE GridLoopEither(_, _, _, _, _, _)
GridLoopEither(a, nx, ny, k, st, points) ==
    IF k >= (nx + 1) * (ny + 1) THEN [points |-> points, state |-> st]
    ELSE LET s1 == NextState(st)
             s2 == NextState(s1)
             px == Coord(a.minx + (k \div (ny + 1)) * a.spacing, s1)
             py == Coord(a.miny + (k % (ny + 1)) * a.spacing, s2)
         IN  IF Below(px, a.spacing, a.maxx) \/ Below(py, a.spacing, a.maxy)
             THEN GridLoopEither(a, nx, ny, k + 1, s2, Append(points, <<px, py>>))
             ELSE GridLoopEither(a, nx, ny, k + 1, s2, points)

\* The two nested loops, cell k = i * (ny + 1) + j at a time.
RECURSIVE GridLoop(_, _, _, _, _, _)
GridLoop(a, nx, ny, k, st, points) ==
    IF k >= (nx + 1) * (ny + 1) THEN [points |-> points, state |-> st]
    ELSE LET i == k \div (ny + 1)
             j == k % (ny + 1)
             s1 == NextState(st)
             s2 == NextState(s1)
             px == Coord(a.minx + i * a.spacing, s1)
             py == Coord(a.miny + j * a.spacing, s2)
         IN  IF Below(px, a.spacing, a.maxx) /\ Below(py, a.spacing, a.maxy)
             THEN GridLoop(a, nx, ny, k + 1, s2, Append(points, <<px, py>>))
             ELSE GridLoop(a, nx, ny, k + 1, s2, points)

generateJitteredGrid(a, previous) ==
    LET nx == (a.maxx - a.minx) \div a.spacing
        ny == (a.maxy - a.miny) \div a.spacing
    IN  GridLoop(a, nx, ny, 0, seededRandom(Seed(a), previous), <<>>)

\* The calls made.
MaxCalls == 3

GridArgs ==
    [minx : {0}, miny : {-1}, maxx : {3}, maxy : {2}, spacing : {1, 2},
     tileX : {0, 1}, tileY : {0, 1}, tileZ : {1, 2}]

GenerateJitteredGrid ==
    /\ Len(gridLog) < MaxCalls
    /\ \E a \in GridArgs :
          LET r == generateJitteredGrid(a, rngState)
          IN  /\ rngState' = r.state
              /\ gridPoints' = r.points
              /\ gridLog' = Append(gridLog, a)
              /\ gridFirst' = IF a \in DOMAIN gridFirst THEN gridFirst
                              ELSE [b \in DOMAIN gridFirst \cup {a} |->
                                       IF b = a THEN r.points ELSE gridFirst[b]]
    /\ UNCHANGED <<codecVars, resolveVars, keyVars, timeoutVars, isoVars, transferVars>>


-----------------------------------------------------------------------------
(* Transfer: copy, prepareDemTile and prepareContourTile *)

\* An ArrayBuffer is an index of the heap; a detached one has no bytes.
Buffer(bytes) == [bytes |-> bytes, detached |-> FALSE]
Detached == [bytes |-> <<>>, detached |-> TRUE]

\* new ArrayBuffer(...) or new Float32Array(...): a fresh buffer.
Allocate(h, bytes) == Append(h, Buffer(bytes))

\* copy(src): dst = new ArrayBuffer(src.byteLength), filled from src.
copy(h, src) == [heap |-> Allocate(h, h[src].bytes), buffer |-> Len(h) + 1]

\* prepareDemTile(promise, copy), once the promise has resolved to t.
prepareDemTile(h, t, flag) ==
    LET newData == IF flag THEN Len(h) + 1 ELSE t.buffer
        newHeap == IF flag THEN Allocate(h, h[t.buffer].bytes) ELSE h
    IN  [heap |-> newHeap,
         tile |-> [tag |-> "dem", buffer |-> newData, transferrables |-> <<newData>>]]

\* prepareContourTile(promise), once the promise has resolved to t.
prepareContourTile(h, t) ==
    LET clone == copy(h, t.buffer)
    IN  [heap |-> clone.heap,
         tile |-> [tag |-> "contour", buffer |-> clone.buffer,
                   transferrables |-> <<clone.buffer>>]]

\* The cached artifacts.
MaxBytes == 3
ByteValues == {0, 1, 7}
BufferContents == UNION {[1..n -> ByteValues] : n \in 1..MaxBytes}

PrepareDemTile ==
    /\ cachedTile.tag = "dem" /\ call = None
    /\ \E flag \in BOOLEAN :
          LET r == prepareDemTile(heap, cachedTile, flag)
          IN  /\ heap' = r.heap
              /\ prepared' = r.tile
              /\ call' = [tag |-> "prepareDemTile", copy |-> flag, transferred |-> FALSE]
    /\ UNCHANGED <<cachedTile, cachedBytes>>
    /\ UNCHANGED <<codecVars, resolveVars, keyVars, timeoutVars, isoVars, gridVars>>

PrepareContourTile ==
    /\ cachedTile.tag = "contour" /\ call = None
    /\ LET r == prepareContourTile(heap, cachedTile)
       IN  /\ heap' = r.heap
           /\ prepared' = r.tile
           /\ call' = [tag |-> "prepareContourTile", copy |-> TRUE, transferred |-> FALSE]
    /\ UNCHANGED <<cachedTile, cachedBytes>>
    /\ UNCHANGED <<codecVars, resolveVars, keyVars, timeoutVars, isoVars, gridVars>>

\* The caller posts the prepared tile with its transferrables: each
\* buffer listed is detached in this context.
Transfer ==
    /\ call /= None /\ ~call.transferred
    /\ heap' = [b \in DOMAIN heap |->
                   IF \E k \in DOMAIN prepared.transferrables : prepared.transferrables[k] = b
                   THEN Detached ELSE heap[b]]
    /\ call' = [call EXCEPT !.transferred = TRUE]
    /\ UNCHANGED <<cachedTile, cachedBytes, prepared>>
    /\ UNCHANGED <<codecVars, resolveVars, keyVars, timeoutVars, isoVars, gridVars>>

-----------------------------------------------------------------------------
(* Specifications *)

InitCodec ==
    /\ x \in CodecInputs /\ encoded = None /\ decoded = None
    /\ options = <<>> /\ zoom = 0 /\ resolved = None
    /\ optA = <<>> /\ optB = <<>> /\ keyA = None /\ keyB = None
    /\ hasController = FALSE /\ phase = "idle" /\ value = "pending"
    /\ signalAborted = FALSE /\ listener = FALSE /\ timer = "unset"
    /\ cancelPromise = "unset" /\ finallyPromise = "pending"
    /\ result = "pending" /\ microtasks = <<>> /\ events = <<>>
    /\ tile = <<>> /\ levels = <<>> /\ extent = 0
    /\ isoLinesLib = <<>> /\ isolines = None /\ isoBandsLib = <<>> /\ isobands = None
    /\ rngState = <<0, 0>> /\ gridLog = <<>> /\ gridPoints = <<>> /\ gridFirst = <<>>
    /\ heap = <<>> /\ cachedTile = None /\ cachedBytes = <<>> /\ call = None /\ prepared = None

NextCodec == EncodeOptions \/ DecodeOptions

SpecCodec == InitCodec /\ [][NextCodec]_vars

InitResolve ==
    /\ x = <<>> /\ encoded = None /\ decoded = None
    /\ options \in ResolveInputs /\ zoom \in RequestZooms /\ resolved = None
    /\ optA = <<>> /\ optB = <<>> /\ keyA = None /\ keyB = None
    /\ hasController = FALSE /\ phase = "idle" /\ value = "pending"
    /\ signalAborted = FALSE /\ listener = FALSE /\ timer = "unset"
    /\ cancelPromise = "unset" /\ finallyPromise = "pending"
    /\ result = "pending" /\ microtasks = <<>> /\ events = <<>>
    /\ tile = <<>> /\ levels = <<>> /\ extent = 0
    /\ isoLinesLib = <<>> /\ isolines = None /\ isoBandsLib = <<>> /\ isobands = None
    /\ rngState = <<0, 0>> /\ gridLog = <<>> /\ gridPoints = <<>> /\ gridFirst = <<>>
    /\ heap = <<>> /\ cachedTile = None /\ cachedBytes = <<>> /\ call = None /\ prepared = None

NextResolve == GetOptionsForZoom \/ NextRequest

SpecResolve == InitResolve /\ [][NextResolve]_vars

InitKey ==
    /\ x = <<>> /\ encoded = None /\ decoded = None
    /\ options = <<>> /\ zoom = 0 /\ resolved = None
    /\ optA \in KeyObjects
    /\ optB \in {o \in KeyObjects : Keys(o) = Keys(optA)}
    /\ keyA = None /\ keyB = None
    /\ hasController = FALSE /\ phase = "idle" /\ value = "pending"
    /\ signalAborted = FALSE /\ listener = FALSE /\ timer = "unset"
    /\ cancelPromise = "unset" /\ finallyPromise = "pending"
    /\ result = "pending" /\ microtasks = <<>> /\ events = <<>>
    /\ tile = <<>> /\ levels = <<>> /\ extent = 0
    /\ isoLinesLib = <<>> /\ isolines = None /\ isoBandsLib = <<>> /\ isobands = None
    /\ rngState = <<0, 0>> /\ gridLog = <<>> /\ gridPoints = <<>> /\ gridFirst = <<>>
    /\ heap = <<>> /\ cachedTile = None /\ cachedBytes = <<>> /\ call = None /\ prepared = None

NextKey == EncodeA \/ EncodeB

SpecKey == InitKey /\ [][NextKey]_vars

InitTimeout ==
    /\ x = <<>> /\ encoded = None /\ decoded = None
    /\ options = <<>> /\ zoom = 0 /\ resolved = None
    /\ optA = <<>> /\ optB = <<>> /\ keyA = None /\ keyB = None
    /\ hasController \in BOOLEAN /\ phase = "before" /\ value = "pending"
    /\ signalAborted = FALSE /\ listener = FALSE /\ timer = "unset"
    /\ cancelPromise = "unset" /\ finallyPromise = "pending"
    /\ result = "pending" /\ microtasks = <<>> /\ events = <<>>
    /\ tile = <<>> /\ levels = <<>> /\ extent = 0
    /\ isoLinesLib = <<>> /\ isolines = None /\ isoBandsLib = <<>> /\ isobands = None
    /\ rngState = <<0, 0>> /\ gridLog = <<>> /\ gridPoints = <<>> /\ gridFirst = <<>>
    /\ heap = <<>> /\ cachedTile = None /\ cachedBytes = <<>> /\ call = None /\ prepared = None

NextTimeout == WithTimeout \/ ValueSettles \/ Abort \/ TimerExpires \/ RunMicrotask

SpecTimeout == InitTimeout /\ [][NextTimeout]_vars

InitIso ==
    /\ x = <<>> /\ encoded = None /\ decoded = None
    /\ options = <<>> /\ zoom = 0 /\ resolved = None
    /\ optA = <<>> /\ optB = <<>> /\ keyA = None /\ keyB = None
    /\ hasController = FALSE /\ phase = "idle" /\ value = "pending"
    /\ signalAborted = FALSE /\ listener = FALSE /\ timer = "unset"
    /\ cancelPromise = "unset" /\ finallyPromise = "pending"
    /\ result = "pending" /\ microtasks = <<>> /\ events = <<>>
    /\ tile \in Tiles /\ levels \in LevelLists /\ extent \in Extents
    /\ isoLinesLib = <<>> /\ isolines = None /\ isoBandsLib = <<>> /\ isobands = None
    /\ rngState = <<0, 0>> /\ gridLog = <<>> /\ gridPoints = <<>> /\ gridFirst = <<>>
    /\ heap = <<>> /\ cachedTile = None /\ cachedBytes = <<>> /\ call = None /\ prepared = None

NextIso == GenerateIsolinesMS \/ GenerateIsobands

SpecIso == InitIso /\ [][NextIso]_vars

InitGrid ==
    /\ x = <<>> /\ encoded = None /\ decoded = None
    /\ options = <<>> /\ zoom = 0 /\ resolved = None
    /\ optA = <<>> /\ optB = <<>> /\ keyA = None /\ keyB = None
    /\ hasController = FALSE /\ phase = "idle" /\ value = "pending"
    /\ signalAborted = FALSE /\ listener = FALSE /\ timer = "unset"
    /\ cancelPromise = "unset" /\ finallyPromise = "pending"
    /\ result = "pending" /\ microtasks = <<>> /\ events = <<>>
    /\ tile = <<>> /\ levels = <<>> /\ extent = 0
    /\ isoLinesLib = <<>> /\ isolines = None /\ isoBandsLib = <<>> /\ isobands = None
    /\ rngState = <<0, 0>> /\ gridLog = <<>> /\ gridPoints = <<>> /\ gridFirst = <<>>
    /\ heap = <<>> /\ cachedTile = None /\ cachedBytes = <<>> /\ call = None /\ prepared = None

NextGrid == GenerateJitteredGrid

SpecGrid == InitGrid /\ [][NextGrid]_vars

InitTransfer ==
    /\ x = <<>> /\ encoded = None /\ decoded = None
    /\ options = <<>> /\ zoom = 0 /\ resolved = None
    /\ optA = <<>> /\ optB = <<>> /\ keyA = None /\ keyB = None
    /\ hasController = FALSE /\ phase = "idle" /\ value = "pending"
    /\ signalAborted = FALSE /\ listener = FALSE /\ timer = "unset"
    /\ cancelPromise = "unset" /\ finallyPromise = "pending"
    /\ result = "pending" /\ microtasks = <<>> /\ events = <<>>
    /\ tile = <<>> /\ levels = <<>> /\ extent = 0
    /\ isoLinesLib = <<>> /\ isolines = None /\ isoBandsLib = <<>> /\ isobands = None
    /\ rngState = <<0, 0>> /\ gridLog = <<>> /\ gridPoints = <<>> /\ gridFirst = <<>>
    /\ cachedBytes \in BufferContents
    /\ heap = <<Buffer(cachedBytes)>>
    /\ cachedTile \in {[tag |-> t, buffer |-> 1, transferrables |-> <<>>] : t \in {"dem", "contour"}}
    /\ call = None /\ prepared = None

NextTransfer == PrepareDemTile \/ PrepareContourTile \/ Transfer

SpecTransfer == InitTransfer /\ [][NextTransfer]_vars

-----------------------------------------------------------------------------
(* Claims *)

\* A well-formed level configuration: at least one of the three level
\* maps, each with at least one zoom.
WellFormed(opts) ==
    /\ \E k \in LevelKeys : HasKey(opts, k)
    /\ \A k \in LevelKeys : HasKey(opts, k) => DOMAIN Get(opts, k).map /= {}

\* C1: for every well-formed level configuration x,
\* decodeOptions(encodeOptions(x)) equals x.
RoundTrip == (decoded /= None /\ WellFormed(x)) => ObjEq(decoded.obj, x)

\* The value a zoom -> value map holds at the largest key <= z0, if any.
Staircase(map, z0) ==
    LET below == {k \in DOMAIN map : k <= z0}
    IN  IF below = {} THEN [has |-> FALSE, picked |-> Undefined]
        ELSE [has |-> TRUE,
              picked |-> map[CHOOSE k \in below : \A j \in below : j <= k]]

\* What an axis of the configuration resolves to at the requested zoom:
\* absent is the value of an axis with no key <= zoom.
AxisAt(k, absent) ==
    LET st == Staircase(Get(options, k).map, zoom)
    IN  IF st.has THEN AsList(st.picked) ELSE absent

\* C2: for each of thresholds, lineLevels and polygonLevels,
\* getOptionsForZoom returns the value configured at the largest zoom key
\* <= the requested zoom; with no such key the line axis yields an empty
\* list and the polygon axis undefined.
StaircaseResolution ==
    resolved /= None =>
        /\ HasKey(options, K_thresholds) =>
              Get(resolved.obj, K_lineLevels) = AxisAt(K_thresholds, ListV(<<>>))
        /\ HasKey(options, K_lineLevels) =>
              Get(resolved.obj, K_lineLevels) = AxisAt(K_lineLevels, ListV(<<>>))
        /\ HasKey(options, K_polygonLevels) =>
              Get(resolved.obj, K_polygonLevels) = AxisAt(K_polygonLevels, Undefined)

\* Both line modes resolve to a non-empty list at the requested zoom.
BothModesResolve ==
    /\ HasKey(options, K_thresholds)
    /\ HasKey(options, K_lineLevels)
    /\ AxisAt(K_thresholds, ListV(<<>>)).list /= <<>>
    /\ AxisAt(K_lineLevels, ListV(<<>>)).list /= <<>>

\* C3: when thresholds and lineLevels both resolve to non-empty lists at
\* the requested zoom, resolution reports a configuration error instead of
\* returning a result.
ExclusiveModesReported == (resolved /= None /\ BothModesResolve) => resolved.tag = "error"

\* Abort was the first thing to happen after the call, with value not
\* settled and the timer not expired yet.
AbortCameFirst ==
    \E i \in 1..Len(events) :
        /\ events[i] = "abort"
        /\ \E j \in 1..(i - 1) : events[j] = "call"
        /\ \A j \in 1..(i - 1) : events[j] \notin {"settle", "expire"}

\* C4: if the controller is aborted after the call, before value settles
\* and before the timer expires, the returned promise rejects with
\* "aborted": it is "aborted" once the microtasks have run and is never
\* anything else, whatever value does later.
AbortRejectsAborted ==
    AbortCameFirst =>
        /\ result \in {"pending", "aborted"}
        /\ microtasks = <<>> => result = "aborted"

AbortRejectsAbortedWitness ==
    AbortCameFirst /\ result = "aborted" /\ value /= "pending" /\ microtasks = <<>>

\* The timer expired with value not settled and no abort before it.
ExpiryCameFirst ==
    \E i \in 1..Len(events) :
        /\ events[i] = "expire"
        /\ \A j \in 1..(i - 1) : events[j] \notin {"settle", "abort"}

\* C5: if the timer expires before value settles and before any abort,
\* the controller becomes aborted and the returned promise rejects with
\* "timed out", not with "aborted".
ExpiryRejectsTimedOut ==
    ExpiryCameFirst =>
        /\ hasController => signalAborted
        /\ result \in {"pending", "timed out"}
        /\ microtasks = <<>> => result = "timed out"

ExpiryRejectsTimedOutWitness ==
    ExpiryCameFirst /\ hasController /\ signalAborted /\ result = "timed out"
    /\ cancelPromise = "timed out"

\* C6: two option objects with the same key/value pairs have the same
\* cache key whatever their insertion orders, and two objects that differ
\* in the value of a key have different cache keys.
CanonicalKey ==
    (keyA /= None /\ keyB /= None) =>
        /\ ObjEq(optA, optB) => keyA = keyB
        /\ (Keys(optA) = Keys(optB) /\ ~ObjEq(optA, optB)) => keyA /= keyB

CanonicalKeyWitness ==
    /\ keyA /= None /\ keyB /= None
    /\ ObjEq(optA, optB) /\ optA /= optB /\ Len(optA) = Cardinality(DOMAIN KeyValues)
    /\ keyA = keyB

\* The list l in ascending order, said without the sort of the code: the
\* ascending sequence with the same number of occurrences of each value.
Ascending(l) ==
    CHOOSE sq \in [1..Len(l) -> {l[i] : i \in 1..Len(l)}] :
        /\ \A i \in 1..(Len(l) - 1) : sq[i] <= sq[i + 1]
        /\ \A v \in {l[i] : i \in 1..Len(l)} :
              Cardinality({i \in 1..Len(l) : sq[i] = v}) = Cardinality({i \in 1..Len(l) : l[i] = v})

\* C7: every key of generateIsobands' result is "<lower>:<upper>" for two
\* adjacent values of the ascending level list, with a colon and never the
\* hyphen-joined form; N levels give at most N-1 keys, and a list of one
\* level or none gives an empty result.
RangeKeys ==
    isobands /= None =>
        /\ \A k \in DOMAIN isobands.map :
              \E i \in 1..(Len(levels) - 1) :
                  /\ k = NumToStr(Ascending(levels)[i]) \o <<":">> \o NumToStr(Ascending(levels)[i + 1])
                  /\ k /= NumToStr(Ascending(levels)[i]) \o <<"-">> \o NumToStr(Ascending(levels)[i + 1])
        /\ Len(levels) >= 1 => Cardinality(DOMAIN isobands.map) <= Len(levels) - 1
        /\ Len(levels) <= 1 => DOMAIN isobands.map = {}

RangeKeysWitness ==
    /\ isobands /= None
    /\ levels = <<5, -8, -5>>
    /\ DOMAIN isobands.map = {<<"-", "8", ":", "-", "5">>, <<"-", "5", ":", "5">>}

\* The pass for a level produced at least one polyline of at least 2 points.
ProducedLine(l) ==
    /\ isoLinesLib[l].kind = "paths"
    /\ \E i \in 1..Len(isoLinesLib[l].paths) : Len(isoLinesLib[l].paths[i]) >= 2

\* C8: generateIsolinesMS' result has a key exactly for the requested
\* levels whose pass produced at least one polyline of at least 2 points:
\* a level above every elevation of the grid is absent, every level that
\* produced such a line is present, and no key is a value not requested.
IsolineKeys ==
    isolines /= None =>
        /\ \A k \in DOMAIN isolines.map :
              \E i \in 1..Len(levels) : k = NumToStr(levels[i]) /\ ProducedLine(levels[i])
        /\ \A i \in 1..Len(levels) :
              /\ ProducedLine(levels[i]) => NumToStr(levels[i]) \in DOMAIN isolines.map
              /\ (\A e \in Elevations(tile) : e < levels[i]) =>
                    NumToStr(levels[i]) \notin DOMAIN isolines.map

IsolineKeysWitness ==
    /\ isolines /= None
    /\ levels = <<20, 5, -5>>
    /\ \A e \in Elevations(tile) : e < 20
    /\ DOMAIN isolines.map = {<<"5">>, <<"-", "5">>}

\* The list without the occurrences of a value.
RECURSIVE Without(_, _)
Without(l, v) ==
    IF l = <<>> THEN <<>>
    ELSE IF Head(l) = v THEN Without(Tail(l), v)
    ELSE <<Head(l)>> \o Without(Tail(l), v)

\* What a band pass alone puts under its range key.
BandEntry(b) == Geometries(isoBandsLib[b].paths, extent, Width(tile), MinRingCoords)

\* C9: when the pass of a level (generateIsolinesMS) or of a range
\* (generateIsobands) fails, the call still returns; the level or range is
\* absent from the result and the other entries are what they are without
\* it: the lines of the call without the failing level, and for each other
\* range what its own pass produced.
FailureIsLocal ==
    /\ isolines /= None =>
          /\ isolines.tag = "returned"
          /\ \A l \in DOMAIN isoLinesLib :
                isoLinesLib[l].kind = "threw" =>
                    /\ NumToStr(l) \notin DOMAIN isolines.map
                    /\ isolines.map = generateIsolinesMS(Without(levels, l), tile, extent, isoLinesLib).map
    /\ isobands /= None =>
          /\ isobands.tag = "returned"
          /\ \A b \in DOMAIN isoBandsLib :
                isoBandsLib[b].kind = "threw" =>
                    /\ RangeKey(b[1], b[1] + b[2]) \notin DOMAIN isobands.map
                    /\ \A c \in DOMAIN isoBandsLib \ {b} :
                          /\ RangeKey(c[1], c[1] + c[2]) \in DOMAIN isobands.map
                                <=> (isoBandsLib[c].kind = "paths" /\ BandEntry(c) /= <<>>)
                          /\ RangeKey(c[1], c[1] + c[2]) \in DOMAIN isobands.map
                                => isobands.map[RangeKey(c[1], c[1] + c[2])] = BandEntry(c)

FailureIsLocalWitness ==
    /\ isolines /= None
    /\ levels = <<-5, 5, 20>>
    /\ isoLinesLib[-5].kind = "threw"
    /\ isolines.tag = "returned"
    /\ DOMAIN isolines.map = {<<"5">>}

\* C10: two calls of generateJitteredGrid with the same arguments return
\* the same point sequence, whatever calls were made in between: every
\* call returns what the first call with its arguments returned.
SamplerDeterministic ==
    gridLog /= <<>> => gridPoints = gridFirst[gridLog[Len(gridLog)]]

SamplerDeterministicWitness ==
    /\ Len(gridLog) = 3
    /\ gridLog[1] = gridLog[3]
    /\ gridLog[2] /= gridLog[1]
    /\ gridPoints /= <<>>
    /\ gridPoints = gridFirst[gridLog[1]]

\* C11: the buffer listed in the transferrables of a prepared tile is
\* another buffer than the cached one and, until it is transferred, holds
\* the same bytes; the cached buffer is never detached and keeps its
\* bytes, for prepareContourTile and for prepareDemTile with either flag.
TransferLeavesCache ==
    call /= None =>
        /\ \A k \in DOMAIN prepared.transferrables :
              /\ prepared.transferrables[k] /= cachedTile.buffer
              /\ ~call.transferred => heap[prepared.transferrables[k]] = Buffer(cachedBytes)
        /\ heap[cachedTile.buffer] = Buffer(cachedBytes)

\* A coordinate lies in [low, high).
Within(c, spacing, low, high) == ~Below(c, spacing, low) /\ Below(c, spacing, high)

\* The origins of the grid cells along one axis.
CellOrigins(min, max, spacing) == {min + i * spacing : i \in 0..((max - min) \div spacing)}

\* C12: every point generateJitteredGrid returns has minx <= x < maxx and
\* miny <= y < maxy, lies inside the cell of the grid it was drawn for,
\* and no two points are of the same cell.
PointsInBoundsAndCell ==
    gridLog /= <<>> =>
        LET a == gridLog[Len(gridLog)]
        IN  /\ \A k \in DOMAIN gridPoints :
                  LET px == gridPoints[k][1]
                      py == gridPoints[k][2]
                  IN  /\ Within(px, a.spacing, a.minx, a.maxx)
                      /\ Within(py, a.spacing, a.miny, a.maxy)
                      /\ px.cell \in CellOrigins(a.minx, a.maxx, a.spacing)
                      /\ py.cell \in CellOrigins(a.miny, a.maxy, a.spacing)
                      /\ Within(px, a.spacing, px.cell, px.cell + a.spacing)
                      /\ Within(py, a.spacing, py.cell, py.cell + a.spacing)
            /\ \A k \in DOMAIN gridPoints : \A l \in DOMAIN gridPoints :
                  (gridPoints[k][1].cell = gridPoints[l][1].cell
                   /\ gridPoints[k][2].cell = gridPoints[l][2].cell) => k = l

\* A call on a grid whose last column starts inside the bounds, that kept
\* a point of that column and dropped another.
PointsInBoundsAndCellWitness ==
    /\ gridLog /= <<>>
    /\ LET a == gridLog[Len(gridLog)]
       IN  /\ a.spacing = 2 /\ a.minx = 0
           /\ \E k \in DOMAIN gridPoints : gridPoints[k][1].cell = 2
           /\ Len(gridPoints) \in {2, 3}

\* C13: every band pass generateIsobands runs has a positive bandwidth,
\* and every range key of its result is of a lower level strictly below
\* its upper level, for unsorted lists and lists with duplicates too.
StrictlyIncreasingBands ==
    isobands /= None =>
        /\ \A b \in DOMAIN isoBandsLib : b[2] > 0
        /\ \A i \in 1..(Len(levels) - 1) :
              LET sorted == SortNum(levels)
              IN  RangeKey(sorted[i], sorted[i + 1]) \in DOMAIN isobands.map
                      => sorted[i] < sorted[i + 1]

\* The controller was aborted already when withTimeout was called.
AbortedBeforeCall ==
    \E i \in 1..Len(events) :
        events[i] = "call" /\ \E j \in 1..(i - 1) : events[j] = "abort"

\* C14: withTimeout called with a controller that is aborted already
\* rejects with "aborted": the returned promise is "aborted" once the
\* microtasks have run, and never value's outcome or "timed out".
AlreadyAbortedRejects ==
    AbortedBeforeCall =>
        /\ result \in {"pending", "aborted"}
        /\ microtasks = <<>> => result = "aborted"

\* The events other than the call itself, in the order they happened.
Happened == SelectSeq(events, LAMBDA ev : ev /= "call")

\* What the returned promise is to become when ev was the first event.
OutcomeOf(ev) ==
    CASE ev = "settle" -> value
      [] ev = "abort" -> "aborted"
      [] ev = "expire" -> "timed out"

\* C15: for a controller not aborted before the call, the returned promise
\* takes the outcome of the first of the three events (value settles,
\* abort, timer expiry) and no other; when value settled first the timer
\* is cancelled and never expires (so withTimeout never calls abort());
\* once the controller is aborted the timer is cancelled and no expiry is
\* processed later.
FirstEventWins ==
    (phase = "called" /\ ~AbortedBeforeCall /\ Happened /= <<>>) =>
        /\ result \in {"pending", OutcomeOf(Head(Happened))}
        /\ microtasks = <<>> => result = OutcomeOf(Head(Happened))
        /\ Head(Happened) = "settle" =>
              /\ \A i \in 1..Len(Happened) : Happened[i] /= "expire"
              /\ microtasks = <<>> => timer = "cleared"
        /\ \A i \in 1..Len(Happened) :
              Happened[i] = "abort" =>
                  /\ timer /= "armed"
                  /\ \A j \in (i + 1)..Len(Happened) : Happened[j] /= "expire"

====
